---- MODULE Spec2Model ----
(***************************************************************************)
(* Chart-rendering pipeline of shamir-secret-sharing (src/src/main.rs).    *)
(*                                                                         *)
(* create_chart is modelled as a state machine whose position `pc` walks   *)
(* the fallible steps of the function in source order; every `?` of the    *)
(* source is a point where the step either succeeds or returns Err.        *)
(* The document is the sequence of draw operations handed to the backend.  *)
(*                                                                         *)
(* Numbers: an f32 is held as an integer count of sampling steps (1e-3),   *)
(* so 1.0 is Scale.  The significand keeps the 24 bits of f32: a result of *)
(* magnitude 2^24 steps or more is rounded to the nearest representable    *)
(* value, ties to even, as IEEE-754 arithmetic does.                       *)
(*                                                                         *)
(* The grid loop of x_range.step(1e-3) is walked Chunk turns per step.      *)
(*                                                                         *)
(* Two specifications share the actions of create_chart:                   *)
(*   Spec      create_chart called with requests drawn from Requests       *)
(*   SpecMain  main() rendering the six hard-coded figures                 *)
(***************************************************************************)
EXTENDS Integers, Sequences, FiniteSets, TLC

VARIABLES
    req,          \* arguments of the running create_chart call
    pc,           \* position inside create_chart
    result,       \* "pending" | "Ok" | "Err": what create_chart returned
    failed,       \* the step whose error was returned ("" when none)
    doc,          \* draw operations emitted so far, in order
    series_anno,  \* the chart's series annotations (legend registry)
    current,      \* Linspace grid loop: the running x
    grid_value,   \* Linspace grid loop: the x values collected
    prev,         \* <<>> or <<the last call that returned Ok>> (Spec)
    fig,          \* main(): index of the figure being rendered (SpecMain)
    rendered,     \* main(): the figures returned so far, with their results
    mainResult    \* main(): "running" | "Ok" | "Err"

vars == <<req, pc, result, failed, doc, series_anno, current, grid_value,
          prev, fig, rendered, mainResult>>

chartVars == <<req, pc, result, failed, doc, series_anno, current, grid_value>>
mainVars == <<fig, rendered, mainResult>>

(***************************************************************************)
(* f32 arithmetic                                                          *)
(***************************************************************************)
\* 1.0 in units of the sampling step: the step literal is 1e-3
Scale == 1000
\* the sampling step 1e-3, in units of itself
STEP == 1
\* significand width of f32
PrecisionBits == 24

Abs(n) == IF n < 0 THEN -n ELSE n

RECURSIVE Quantum(_)
\* spacing of the representable values around magnitude a
Quantum(a) == IF a < 2^PrecisionBits THEN 1 ELSE 2 * Quantum(a \div 2)

\* a / q rounded to the nearest integer, ties to even (a >= 0, q > 0)
RoundDiv(a, q) ==
    LET lo == a \div q
        r  == a - lo * q
    IN  IF 2 * r < q THEN lo
        ELSE IF 2 * r > q THEN lo + 1
        ELSE IF lo % 2 = 0 THEN lo ELSE lo + 1

\* the f32 nearest to the exact value n
RoundF32(n) ==
    LET a == Abs(n)
        q == Quantum(a)
        m == q * RoundDiv(a, q)
    IN  IF n < 0 THEN -m ELSE m

AddF32(a, b) == RoundF32(a + b)
SubF32(a, b) == RoundF32(a - b)
MulF32(a, b) ==
    LET p == a * b
        m == RoundDiv(Abs(p), Scale)
    IN  RoundF32(IF p < 0 THEN -m ELSE m)

\* f32::partial_cmp on non-NaN values
Cmp(a, b) == IF a < b THEN "Less" ELSE IF a = b THEN "Equal" ELSE "Greater"

(***************************************************************************)
(* The polynomials passed as closures                                      *)
(***************************************************************************)
Powi2(x) == MulF32(x, x)
Powi3(x) == MulF32(MulF32(x, x), x)

\* |x| 2.0 * x.powi(3) - 3.0 * x.powi(2) + 2.0 * x + 5.0
ShamirPoly(x) ==
    AddF32(AddF32(SubF32(MulF32(2 * Scale, Powi3(x)), MulF32(3 * Scale, Powi2(x))),
                  MulF32(2 * Scale, x)),
           5 * Scale)

\* calling the closure `polynomial`
Apply(p, x) ==
    CASE p = "identity" -> x
      [] p = "powi2"    -> Powi2(x)
      [] p = "powi3"    -> Powi3(x)
      [] p = "shamir"   -> ShamirPoly(x)

(***************************************************************************)
(* Requests                                                                *)
(***************************************************************************)
DIMENSIONS == <<640, 480>>

Request(filename, title, x_range, y_range, polynomial, polynomial_str, shares_x, secret) ==
    [filename |-> filename, title |-> title, dimensions |-> DIMENSIONS,
     x_range |-> x_range, y_range |-> y_range,
     polynomial |-> polynomial, polynomial_str |-> polynomial_str,
     shares_x |-> shares_x, secret |-> secret]

Range(s, e) == [start |-> s, end |-> e]

line ==
    Request("plots/line.svg", "Two Points are Uniquely Determined by a Line",
            Range(2500, 4500), Range(2000, 4500),
            "identity", "x", <<3000, 4000>>, FALSE)

\* mutant of quadratic: the y range stops short of the shares at x = -4 and 4
quadratic_with_low_y_range ==
    [filename |-> "plots/quadratic.svg",
     title |-> "Three Points are Uniquely Determined by a Parabola",
     dimensions |-> <<640, 480>>,
     x_range |-> [start |-> -5100, end |-> 5100],
     y_range |-> [start |-> -1000, end |-> 6000],
     polynomial |-> "powi2", polynomial_str |-> "x^2",
     shares_x |-> <<-4000, 1000, 4000>>, secret |-> FALSE]

quadratic ==
    Request("plots/quadratic.svg", "Three Points are Uniquely Determined by a Parabola",
            Range(-5100, 5100), Range(-1000, 26000),
            "powi2", "x^2", <<-4000, 1000, 4000>>, FALSE)

cubic ==
    Request("plots/cubic.svg", "Four Points are Uniquely Determined by a Cubic",
            Range(-2500, 2500), Range(-20000, 20000),
            "powi3", "x^3", <<-2000, -1000, 1000, 2000>>, FALSE)

shamir ==
    Request("plots/shamir.svg", "Shamir's Secret Sharing",
            Range(-2100, 2400), Range(-30000, 20000),
            "shamir", "2x^3 - 3x^2 + 2x + 5", <<-2000, -1000, 1000, 2000>>, TRUE)

shamir_alternate_single ==
    Request("plots/shamir_alternate_single.svg",
            "Shamir's Secret Sharing: Alternate Single Share",
            Range(-1100, 3400), Range(-30000, 60000),
            "shamir", "2x^3 - 3x^2 + 2x + 5", <<-1000, 1000, 2000, 3000>>, TRUE)

shamir_alternate_multiple ==
    Request("plots/shamir_alternate_multiple.svg",
            "Shamir's Secret Sharing: Alternate Multiple Shares",
            Range(-2700, 3000), Range(-70000, 60000),
            "shamir", "2x^3 - 3x^2 + 2x + 5", <<-2500, -1500, 1500, 2500>>, TRUE)

\* the calls of main(), in source order
Figures ==
    <<line, quadratic, cubic, shamir, shamir_alternate_single, shamir_alternate_multiple>>

\* widest small x range, in sampling steps
MaxSpan == 3

\* x ranges a caller may pass: from -0.002, degenerate (empty), one step wide,
\* up to MaxSpan steps wide; and one of a magnitude where the spacing of f32
\* values exceeds the sampling step
XRanges ==
    {Range(-2, -2 + k) : k \in 0..MaxSpan} \cup {Range(40000000, 40000004)}

SampleSets == {<<>>, <<0>>, <<2000, -1000>>}

\* the arguments create_chart is called with under Spec
Requests ==
    {Request("plots/out.svg", "Title", xr, Range(-30000, 20000), p, p, sx, s) :
        xr \in XRanges, p \in {"identity", "shamir"}, sx \in SampleSets, s \in BOOLEAN}

(***************************************************************************)
(* Draw operations and series annotations                                  *)
(***************************************************************************)
Op(kind, style, label, args, pts, labels) ==
    [kind |-> kind, style |-> style, label |-> label,
     args |-> args, pts |-> pts, labels |-> labels]

\* SeriesAnno: .label(..) and .legend(..) of a drawn series
Anno(label, legend) == [label |-> label, legend |-> legend]

\* the annotations configure_series_labels().draw() puts in the legend:
\* those with a label or a legend glyph
LegendEntries(annos) ==
    SelectSeq(annos, LAMBDA a : ~(a.label = "" /\ ~a.legend))

Labels(annos) == [i \in 1..Len(annos) |-> annos[i].label]

(***************************************************************************)
(* create_chart                                                            *)
(***************************************************************************)
\* mutant of Propagate: the error is recorded but the function does not return
PropagateWithoutReturn(s) ==
    /\ result' = "Err"
    /\ failed' = s
    /\ UNCHANGED <<pc, req, doc, series_anno, current, grid_value>>

\* `?` on an Err: create_chart returns the error of step s at once
Propagate(s) ==
    /\ pc' = "done"
    /\ result' = "Err"
    /\ failed' = s
    /\ UNCHANGED <<req, doc, series_anno, current, grid_value>>

\* a step that succeeded: its draw operation is emitted, control moves on
Emit(op, next) ==
    /\ doc' = Append(doc, op)
    /\ pc' = next
    /\ UNCHANGED <<req, result, failed, current, grid_value>>

\* mutant of Enter: the new call draws onto the document of the call before
EnterOnOldDocument(r) ==
    /\ req' = r
    /\ pc' = "fill"
    /\ result' = "pending"
    /\ failed' = ""
    /\ doc' = doc
    /\ series_anno' = <<>>
    /\ current' = 0
    /\ grid_value' = <<>>

\* the state of a fresh call create_chart(r)
Enter(r) ==
    /\ req' = r
    /\ pc' = "fill"
    /\ result' = "pending"
    /\ failed' = ""
    /\ doc' = <<>>
    /\ series_anno' = <<>>
    /\ current' = 0
    /\ grid_value' = <<>>

\* root_area.fill(&TRANSPARENT)?
Fill ==
    /\ pc = "fill"
    /\ \/ /\ Emit(Op("fill", "TRANSPARENT", "", req.dimensions, <<>>, <<>>), "build")
          /\ UNCHANGED series_anno
       \/ Propagate("fill")
    /\ UNCHANGED <<prev, mainVars>>

\* ChartBuilder::on(..).caption(..)...build_cartesian_2d(x_range, y_range)?
BuildCartesian ==
    /\ pc = "build"
    /\ \/ /\ Emit(Op("build", "sans-serif", req.title, <<5, 35, 40>>,
                     <<<<req.x_range.start, req.x_range.end>>,
                       <<req.y_range.start, req.y_range.end>>>>, <<>>), "mesh")
          /\ series_anno' = <<>>
       \/ Propagate("build")
    /\ UNCHANGED <<prev, mainVars>>

\* let x_labels_count = shares_x.len() + secret as usize
x_labels_count(r) == Len(r.shares_x) + (IF r.secret THEN 1 ELSE 0)

\* chart.configure_mesh()...draw()?
DrawMesh ==
    /\ pc = "mesh"
    /\ \/ /\ Emit(Op("mesh", "disable_mesh", "", <<x_labels_count(req), 5>>, <<>>, <<>>),
                  "vline")
          /\ UNCHANGED series_anno
       \/ Propagate("mesh")
    /\ UNCHANGED <<prev, mainVars>>

\* vec![(0.0, y_range.start), (0.0, y_range.end)]
vertical_line(r) == <<<<0, r.y_range.start>>, <<0, r.y_range.end>>>>

\* chart.draw_series(vertical_line)?
DrawVerticalLine ==
    /\ pc = "vline"
    /\ \/ /\ Emit(Op("vline", "BLACK", "", <<>>, vertical_line(req), <<>>), "curve")
          /\ series_anno' = Append(series_anno, Anno("", FALSE))
       \/ Propagate("vline")
    /\ UNCHANGED <<prev, mainVars>>

\* x_range.step(1e-3): the grid is walked only when start and start + step
\* compare to end the same way and neither is equal to it
StepGrid ==
    /\ pc = "curve"
    /\ LET a == Cmp(req.x_range.start, req.x_range.end)
           b == Cmp(AddF32(req.x_range.start, STEP), req.x_range.end)
       IN  /\ grid_value' = <<>>
           /\ current' = req.x_range.start
           /\ pc' = IF a # b \/ a = "Equal" \/ b = "Equal" THEN "curve_draw" ELSE "grid"
    /\ UNCHANGED <<req, result, failed, doc, series_anno, prev, mainVars>>

\* turns of the grid loop taken in one step of the model
Chunk == 1000

\* one turn of
\*   while current.partial_cmp(&range.end) == Some(a) { push(current); current += step }
\* from cur, with acc the values pushed so far.  When cur + step rounds back
\* to cur the condition stays true for ever and the same value is pushed again
\* and again: the turn records the repetition once and reports "diverged".
Turn(cur, range, acc) ==
    IF Cmp(cur, range.end) # Cmp(range.start, range.end)
    THEN [grid_value |-> acc, current |-> cur, pc |-> "curve_draw"]
    ELSE IF AddF32(cur, STEP) = cur
    THEN [grid_value |-> Append(Append(acc, cur), cur), current |-> cur,
          pc |-> "diverged"]
    ELSE [grid_value |-> Append(acc, cur), current |-> AddF32(cur, STEP),
          pc |-> "grid"]

RECURSIVE Walk(_, _, _, _)
\* at most n turns of the loop: the first half of them, then the rest
Walk(cur, range, acc, n) ==
    IF n = 0 THEN [grid_value |-> acc, current |-> cur, pc |-> "grid"]
    ELSE IF n = 1 THEN Turn(cur, range, acc)
    ELSE LET first == Walk(cur, range, acc, n \div 2)
         IN  IF first.pc # "grid" THEN first
             ELSE Walk(first.current, range, first.grid_value, n - (n \div 2))

\* the loop of compute_grid_values, Chunk turns at a time
GridLoop ==
    /\ pc = "grid"
    /\ LET w == Walk(current, req.x_range, grid_value, Chunk)
       IN  /\ grid_value' = w.grid_value
           /\ current' = w.current
           /\ pc' = w.pc
    /\ UNCHANGED <<req, result, failed, doc, series_anno, prev, mainVars>>

\* .values().map(|x| (x, polynomial(x))).collect()
CurvePoints(r, grid) ==
    [i \in 1..Len(grid) |-> <<grid[i], Apply(r.polynomial, grid[i])>>]

\* chart.draw_series(LineSeries::new(points, BLUE))?.label(..).legend(..)
DrawPolynomial ==
    /\ pc = "curve_draw"
    /\ \/ /\ Emit(Op("curve", "BLUE", "", <<>>, CurvePoints(req, grid_value), <<>>),
                  "shares")
          /\ series_anno' = Append(series_anno, Anno(req.polynomial_str, TRUE))
       \/ Propagate("curve")
    /\ UNCHANGED <<prev, mainVars>>

\* mutant of SharePoints: the point at x = 0 is always among the shares
SharePointsWithOrigin(r) ==
    <<<<0, Apply(r.polynomial, 0)>>>>
        \o [i \in 1..Len(r.shares_x) |->
               <<r.shares_x[i], Apply(r.polynomial, r.shares_x[i])>>]

\* mutant of SharePoints: the shares are collected in reverse order
SharePointsReversed(r) ==
    [i \in 1..Len(r.shares_x) |->
        <<r.shares_x[Len(r.shares_x) + 1 - i],
          Apply(r.polynomial, r.shares_x[Len(r.shares_x) + 1 - i])>>]

\* shares_x.iter().map(|&x| (x, polynomial(x))).collect()
SharePoints(r) ==
    [i \in 1..Len(r.shares_x) |-> <<r.shares_x[i], Apply(r.polynomial, r.shares_x[i])>>]

\* mutant of SharesAnno: no label and no glyph when there is no share
SharesAnnoIfAny(r) ==
    IF r.shares_x = <<>> THEN [label |-> "", legend |-> FALSE]
    ELSE [label |-> "Shares", legend |-> TRUE]

\* the annotation draw_shares leaves on the chart
SharesAnno(r) == Anno("Shares", TRUE)

\* mutant of AfterShares: draw_secret is called whatever the flag
AfterSharesAlwaysSecret(r) == "secret"

\* `if secret { draw_secret(..)?; }`
AfterShares(r) == IF r.secret THEN "secret" ELSE "legend"

\* chart.draw_series(PointSeries::of_element(shares, 5, RED.filled(), ..))?
DrawShares ==
    /\ pc = "shares"
    /\ \/ /\ Emit(Op("shares", "RED", "", <<5>>, SharePoints(req), <<>>), AfterShares(req))
          /\ series_anno' = Append(series_anno, SharesAnno(req))
       \/ Propagate("shares")
    /\ UNCHANGED <<prev, mainVars>>

\* (0.0f32, polynomial(0.0))
SecretPoint(r) == <<0, Apply(r.polynomial, 0)>>

\* chart.draw_series(PointSeries::of_element(once(secret), 5, GREEN.filled(), ..))?
DrawSecret ==
    /\ pc = "secret"
    /\ \/ /\ Emit(Op("secret", "GREEN", "", <<5>>, <<SecretPoint(req)>>, <<>>), "legend")
          /\ series_anno' = Append(series_anno, Anno("Secret", TRUE))
       \/ Propagate("secret")
    /\ UNCHANGED <<prev, mainVars>>

\* chart.configure_series_labels()...draw()?  then Ok(())
DrawLegend ==
    /\ pc = "legend"
    /\ \/ /\ doc' = Append(doc, Op("legend", "LowerRight", "", <<10>>, <<>>,
                                   Labels(LegendEntries(series_anno))))
          /\ pc' = "done"
          /\ result' = "Ok"
          /\ UNCHANGED <<req, failed, series_anno, current, grid_value>>
       \/ Propagate("legend")
    /\ UNCHANGED <<prev, mainVars>>

ChartStep ==
    \/ Fill
    \/ BuildCartesian
    \/ DrawMesh
    \/ DrawVerticalLine
    \/ StepGrid
    \/ GridLoop
    \/ DrawPolynomial
    \/ DrawShares
    \/ DrawSecret
    \/ DrawLegend

(***************************************************************************)
(* Spec: create_chart called again and again with any request              *)
(***************************************************************************)
Completed(r, res, d) == [req |-> r, result |-> res, doc |-> d]

\* create_chart has returned and the caller calls it again; the last call
\* that returned Ok is kept, with its document, for comparison
Call(r) ==
    /\ pc = "done"
    /\ prev' = IF result = "Ok" THEN <<Completed(req, result, doc)>> ELSE prev
    /\ Enter(r)
    /\ UNCHANGED mainVars

Init ==
    /\ req \in Requests
    /\ pc = "fill"
    /\ result = "pending"
    /\ failed = ""
    /\ doc = <<>>
    /\ series_anno = <<>>
    /\ current = 0
    /\ grid_value = <<>>
    /\ prev = <<>>
    /\ fig = 0
    /\ rendered = <<>>
    /\ mainResult = "running"

Next ==
    \/ ChartStep
    \/ \E r \in Requests : Call(r)

Spec == Init /\ [][Next]_vars

(***************************************************************************)
(* SpecMain: main()                                                        *)
(***************************************************************************)
Returned(r, res) == [filename |-> r.filename, result |-> res]

\* mutant of MainPropagate: the error of a figure is dropped and main goes on
MainIgnoreError ==
    /\ mainResult = "running"
    /\ pc = "done"
    /\ result = "Err"
    /\ fig < Len(Figures)
    /\ rendered' = Append(rendered, [filename |-> req.filename, result |-> result])
    /\ fig' = fig + 1
    /\ req' = Figures[fig + 1]
    /\ pc' = "fill"
    /\ result' = "pending"
    /\ failed' = ""
    /\ doc' = <<>>
    /\ series_anno' = <<>>
    /\ current' = 0
    /\ grid_value' = <<>>
    /\ UNCHANGED <<prev, mainResult>>

\* `figure()?` returned Err: main returns it
MainPropagate ==
    /\ mainResult = "running"
    /\ pc = "done"
    /\ result = "Err"
    /\ rendered' = Append(rendered, Returned(req, result))
    /\ mainResult' = "Err"
    /\ UNCHANGED <<chartVars, prev, fig>>

\* `figure()?` returned Ok and another call follows
MainNextFigure ==
    /\ mainResult = "running"
    /\ pc = "done"
    /\ result = "Ok"
    /\ fig < Len(Figures)
    /\ rendered' = Append(rendered, Returned(req, result))
    /\ fig' = fig + 1
    /\ Enter(Figures[fig + 1])
    /\ UNCHANGED <<prev, mainResult>>

\* the last call returned Ok: Ok(())
MainOk ==
    /\ mainResult = "running"
    /\ pc = "done"
    /\ result = "Ok"
    /\ fig = Len(Figures)
    /\ rendered' = Append(rendered, Returned(req, result))
    /\ mainResult' = "Ok"
    /\ UNCHANGED <<chartVars, prev, fig>>

InitMain ==
    /\ req = Figures[1]
    /\ pc = "fill"
    /\ result = "pending"
    /\ failed = ""
    /\ doc = <<>>
    /\ series_anno = <<>>
    /\ current = 0
    /\ grid_value = <<>>
    /\ prev = <<>>
    /\ fig = 1
    /\ rendered = <<>>
    /\ mainResult = "running"

NextMain ==
    \/ ChartStep
    \/ MainPropagate
    \/ MainNextFigure
    \/ MainOk

SpecMain == InitMain /\ [][NextMain]_vars

(***************************************************************************)
(* Properties                                                              *)
(***************************************************************************)
Returned_Ok == pc = "done" /\ result = "Ok"

Kinds(d) == [i \in 1..Len(d) |-> d[i].kind]

OpsOfKind(d, k) == SelectSeq(d, LAMBDA o : o.kind = k)

Flag(b) == IF b THEN 1 ELSE 0

\* the steps of one render of r, in the order the claims give
StepOrder(r) ==
    <<"fill", "build", "mesh", "vline", "curve", "shares">>
        \o (IF r.secret THEN <<"secret">> ELSE <<>>) \o <<"legend">>

\* C1 as stated: when create_chart returns Ok the number of legend entries is
\* 1 + 1 if sample_xs is non-empty + 1 if the secret flag is true.
C1_LegendCountAsStated ==
    Returned_Ok =>
        Len(LegendEntries(series_anno))
            = 1 + Flag(req.shares_x # <<>>) + Flag(req.secret)

\* C1 amended: when create_chart returns Ok the number of legend entries is
\* 1 (the curve) + 1 ("Shares", whether or not there are samples) + 1 if the
\* secret flag is true, and the legend that is drawn lists exactly them.
C1_LegendCount ==
    Returned_Ok =>
        /\ Len(LegendEntries(series_anno)) = 2 + Flag(req.secret)
        /\ doc[Len(doc)].kind = "legend"
        /\ doc[Len(doc)].labels
             = <<req.polynomial_str, "Shares">>
                 \o (IF req.secret THEN <<"Secret">> ELSE <<>>)

C1_Witness ==
    Returned_Ok /\ req.shares_x = <<>> /\ req.secret

\* C2 as stated: a request with an empty sample set that returns Ok drew no
\* sample-point glyph and registered no "Shares" legend entry.
C2_EmptySamplesAsStated ==
    (Returned_Ok /\ req.shares_x = <<>>) =>
        /\ \A i \in 1..Len(doc) : doc[i].kind = "shares" => doc[i].pts = <<>>
        /\ \A i \in 1..Len(series_anno) : series_anno[i].label # "Shares"

\* C2 amended: a request with an empty sample set can return Ok; it then drew
\* no sample-point glyph, and it did register the "Shares" legend entry, once.
C2_EmptySamples ==
    (Returned_Ok /\ req.shares_x = <<>>) =>
        /\ \A i \in 1..Len(doc) : doc[i].kind = "shares" => doc[i].pts = <<>>
        /\ Len(SelectSeq(series_anno, LAMBDA a : a.label = "Shares")) = 1

C2_Witness ==
    Returned_Ok /\ req.shares_x = <<>> /\ ~req.secret

\* C3 as stated: with a degenerate x_range (start = end) create_chart returns
\* Err from the construction of the coordinate system and none of the steps
\* after it (mesh, vertical line, curve, shares, secret, legend) is executed.
C3_DegenerateRangeFails ==
    (req.x_range.start = req.x_range.end) =>
        /\ pc \in {"fill", "build", "done"}
        /\ result # "Ok"
        /\ \A i \in 1..Len(doc) : doc[i].kind \in {"fill", "build"}

\* C4: the draw operations of a render are a prefix of the fixed order fill,
\* build, mesh, vertical line, curve, shares, secret (if flagged), legend, each
\* at most once; when a step fails create_chart has returned that step's
\* error and exactly the steps before it were executed; Ok is returned only
\* after all of them.
C4_FirstFailureAborts ==
    /\ Len(doc) <= Len(StepOrder(req))
    /\ Kinds(doc) = SubSeq(StepOrder(req), 1, Len(doc))
    /\ result = "Err" =>
         /\ pc = "done"
         /\ Len(doc) < Len(StepOrder(req))
         /\ failed = StepOrder(req)[Len(doc) + 1]
    /\ result = "Ok" => pc = "done" /\ Kinds(doc) = StepOrder(req)
    /\ pc = "done" => result # "pending"

C4_Witness ==
    pc = "done" /\ result = "Err" /\ failed = "shares" /\ Len(doc) = 5

\* C5: main renders the six figures one after another in the order line,
\* quadratic, cubic, shamir, shamir_alternate_single,
\* shamir_alternate_multiple, each to its own destination; a figure is started
\* only if every earlier one returned Ok, and when a figure returns Err main
\* returns that error and renders nothing more.
C5_FiguresInOrder ==
    /\ fig \in 1..Len(Figures)
    /\ req = Figures[fig]
    /\ \A i, j \in 1..Len(Figures) :
         i # j => Figures[i].filename # Figures[j].filename
    /\ Len(rendered) \in {fig - 1, fig}
    /\ \A i \in 1..Len(rendered) : rendered[i].filename = Figures[i].filename
    /\ \A i \in 1..(fig - 1) : rendered[i].result = "Ok"
    /\ mainResult = "running" => Len(rendered) = fig - 1
    /\ mainResult = "Err" =>
         /\ Len(rendered) = fig
         /\ rendered[fig].result = "Err"
         /\ pc = "done"
    /\ mainResult = "Ok" =>
         /\ Len(rendered) = Len(Figures)
         /\ \A i \in 1..Len(rendered) : rendered[i].result = "Ok"

C5_Witness ==
    /\ mainResult = "Err"
    /\ fig = 2
    /\ rendered = <<[filename |-> "plots/line.svg", result |-> "Ok"],
                    [filename |-> "plots/quadratic.svg", result |-> "Err"]>>

\* C6: the sample points plotted are, for each x of sample_xs, in the same
\* order and number, the point (x, f(x)).
C6_SharesOnCurve ==
    \A i \in 1..Len(doc) :
        doc[i].kind = "shares" =>
            /\ Len(doc[i].pts) = Len(req.shares_x)
            /\ \A k \in 1..Len(req.shares_x) :
                 /\ doc[i].pts[k][1] = req.shares_x[k]
                 /\ doc[i].pts[k][2] = Apply(req.polynomial, req.shares_x[k])

C6_Witness ==
    /\ Returned_Ok
    /\ req.shares_x = <<2000, -1000>>
    /\ req.polynomial = "shamir"
    /\ OpsOfKind(doc, "shares")[1].pts = <<<<2000, 13000>>, <<-1000, -2000>>>>

\* C7: the secret point is plotted if and only if the secret flag is true,
\* and it is then the single point (0, f(0)), whatever sample_xs holds.
C7_SecretAtOrigin ==
    /\ Returned_Ok => (Len(OpsOfKind(doc, "secret")) = Flag(req.secret))
    /\ \A i \in 1..Len(doc) :
         doc[i].kind = "secret" =>
            /\ req.secret
            /\ doc[i].pts = <<<<0, Apply(req.polynomial, 0)>>>>

C7_Witness ==
    /\ Returned_Ok
    /\ req.secret
    /\ req.shares_x = <<2000, -1000>>
    /\ req.polynomial = "shamir"
    /\ OpsOfKind(doc, "secret")[1].pts = <<<<0, 5000>>>>

\* C8 as stated: for every x_range with start < end the sampling of the curve
\* terminates, and the x values start at range-start, increase strictly by the
\* step 1e-3 and stay at or below range-end; each curve point is (x, f(x)).
C8_CurveSampling ==
    (req.x_range.start < req.x_range.end) =>
        /\ pc # "diverged"
        /\ grid_value # <<>> => grid_value[1] = req.x_range.start
        /\ \A i \in 1..Len(grid_value) : grid_value[i] <= req.x_range.end
        /\ \A i \in 1..(Len(grid_value) - 1) :
             grid_value[i + 1] = grid_value[i] + STEP
        /\ \A i \in 1..Len(doc) :
             doc[i].kind = "curve" =>
                /\ Len(doc[i].pts) = Len(grid_value)
                /\ \A k \in 1..Len(grid_value) :
                     doc[i].pts[k] = <<grid_value[k], Apply(req.polynomial, grid_value[k])>>

Visible(r) ==
    /\ r.x_range.start < r.x_range.end
    /\ r.y_range.start < r.y_range.end
    /\ \A k \in 1..Len(r.shares_x) :
         /\ r.x_range.start <= r.shares_x[k]
         /\ r.shares_x[k] <= r.x_range.end
         /\ r.y_range.start <= Apply(r.polynomial, r.shares_x[k])
         /\ Apply(r.polynomial, r.shares_x[k]) <= r.y_range.end
    /\ r.secret =>
         /\ r.x_range.start <= 0
         /\ 0 <= r.x_range.end
         /\ Apply(r.polynomial, 0) = 5 * Scale
         /\ r.y_range.start <= 5 * Scale
         /\ 5 * Scale <= r.y_range.end

\* C10: each request main passes to create_chart has x_min < x_max and
\* y_min < y_max, every sample x in the x range with f(x) in the y range, and,
\* when the secret flag is set, 0 in the x range and f(0) = 5 in the y range;
\* the flag is set for exactly the last three figures.
C10_FiguresVisible ==
    /\ Visible(req)
    /\ \A i \in 1..Len(doc) :
         doc[i].kind \in {"shares", "secret"} =>
            \A k \in 1..Len(doc[i].pts) :
                /\ req.x_range.start <= doc[i].pts[k][1]
                /\ doc[i].pts[k][1] <= req.x_range.end
                /\ req.y_range.start <= doc[i].pts[k][2]
                /\ doc[i].pts[k][2] <= req.y_range.end
    /\ req.secret <=> fig >= 4

C10_Witness ==
    /\ mainResult = "Ok"
    /\ fig = 6
    /\ OpsOfKind(doc, "shares")[1].pts
         = <<<<-2500, -50000>>, <<-1500, -11500>>, <<1500, 8000>>, <<2500, 22500>>>>
    /\ OpsOfKind(doc, "secret")[1].pts = <<<<0, 5000>>>>

====
